---- MODULE Spec2Model ----
(***************************************************************************)
(* config.h of the ESP32 zoo chatbot, read as the preprocessor reads it:   *)
(* the header is processed section by section, each #define entering the   *)
(* macro table, then the three #if validation directives are evaluated,    *)
(* then the helper macros are defined.  Once the header is compiled the    *)
(* firmware expands LOG_INFO / LOG_DEBUG / LOG_ERROR and                   *)
(* CAMERA_INTERVAL_MS.  The header says "Edit this file to configure":     *)
(* the values a user may write for the validated settings and for the two  *)
(* logging flags are the inputs of the sections that define them.          *)
(***************************************************************************)
EXTENDS Integers, Sequences, FiniteSets, TLC

VARIABLES pc, globals, macros, warnings, calls, serial, interval

vars == <<pc, globals, macros, warnings, calls, serial, interval>>

(* ---------------- bounds and input sets ---------------- *)

\* number of logging macro expansions executed in one run
MaxCalls == 2

\* messages handed to the logging macros
Msgs == {"boot", "wifi"}

(* ---------------- values of the header as shipped ---------------- *)

WIFI_SSID == "YourWiFiName"
WIFI_PASSWORD == "YourWiFiPassword"
SERVER_HOST == "100.88.240.42"
WEBSOCKET_PORT == 8000
\* the inference port given the WebSocket port's value
YOLO_PORT_same == WEBSOCKET_PORT
YOLO_PORT == 5000
DEVICE_ID == "esp32_zoo_001"

SERVO_PIN == 13
PRESSURE_SENSOR_PIN == 34
PRESSURE_THRESHOLD == 500
I2S_MIC_WS == 25
I2S_MIC_SD == 26
I2S_MIC_SCK == 27
I2S_SPK_WS == 32
I2S_SPK_SD == 33
I2S_SPK_SCK == 14

SAMPLE_RATE == 16000
CHANNELS == 1
BITS_PER_SAMPLE == 16
\* the duration with one zero too many
RECORDING_DURATION_MS_typo == 5000 * 10
RECORDING_DURATION_MS == 5000
AUDIO_BUFFER_SIZE == 4096
AUDIO_CHUNK_SIZE == 1024

CAMERA_FPS == 10
CAMERA_JPEG_QUALITY == 12
CAMERA_FRAME_SIZE == "FRAMESIZE_VGA"

ENABLE_CAMERA_STREAMING == TRUE
ENABLE_AUDIO_RECORDING == TRUE
ENABLE_AUDIO_PLAYBACK == TRUE
ENABLE_SERVO_ANIMATION == TRUE
DEBUG_SERIAL == TRUE
SERIAL_BAUD_RATE == 115200
WIFI_CONNECT_TIMEOUT == 20000
WEBSOCKET_CONNECT_TIMEOUT == 10000
STT_PROCESSING_TIMEOUT == 15000
AI_RESPONSE_TIMEOUT == 30000
HTTP_REQUEST_TIMEOUT == 5000
AUDIO_WS_PATH == "/ws/audio"
TTS_WS_PATH == "/ws/tts"

AUDIO_RECORD_TASK_PRIORITY == 2
AUDIO_PLAYBACK_TASK_PRIORITY == 2
CAMERA_STREAM_TASK_PRIORITY == 1
WEBSOCKET_TASK_PRIORITY == 1
AUDIO_RECORD_TASK_STACK == 8192
AUDIO_PLAYBACK_TASK_STACK == 16384
CAMERA_STREAM_TASK_STACK == 16384
USE_SPIRAM_FOR_AUDIO == TRUE

SERVO_CENTER_POS == 90
SERVO_LEFT_POS == 60
SERVO_RIGHT_POS == 120
SERVO_ANIMATION_DELAY == 300
SERVO_ANIMATION_CYCLES == 3

AUDIO_STREAM_CHUNK_SIZE == 8192
AUDIO_STREAM_DELAY_MS == 50
WEBSOCKET_RECONNECT_INTERVAL == 5000
CAMERA_INIT_RETRIES == 3
\* the timeout given the 'no timeout' value
CAMERA_CAPTURE_TIMEOUT_none == 0 - 1
CAMERA_CAPTURE_TIMEOUT == 5000
AUDIO_PLAYBACK_QUEUE_SIZE == 20

SERVO_ON_DETECTION == FALSE
VERBOSE_LOGGING == FALSE
DEBUG_MEMORY == FALSE

PWDN_GPIO_NUM == 32
RESET_GPIO_NUM == -1
XCLK_GPIO_NUM == 0
SIOD_GPIO_NUM == 26
SIOC_GPIO_NUM == 27
Y9_GPIO_NUM == 35
Y8_GPIO_NUM == 34
Y7_GPIO_NUM == 39
Y6_GPIO_NUM == 36
Y5_GPIO_NUM == 21
Y4_GPIO_NUM == 19
Y3_GPIO_NUM == 18
Y2_GPIO_NUM == 5
VSYNC_GPIO_NUM == 25
HREF_GPIO_NUM == 23
PCLK_GPIO_NUM == 22

(* ---------------- values a user may write ---------------- *)

\* the shipped value, the other accepted rate, and rates outside the pair
SampleRates == {SAMPLE_RATE, 44100, 8000, 22050}

\* the shipped value, both sides of the limit 30, zero and a negative value
FpsValues == {CAMERA_FPS, -5, 0, 1, 30, 31, 45}

\* the shipped value and both sides of the limit 10000
DurationsMs == {RECORDING_DURATION_MS, 10000, 10001}

(* ---------------- diagnostics ---------------- *)

SampleRateWarning == "Sample rate should be 16000 or 44100 for best compatibility"
CameraFpsWarning == "Camera FPS > 30 may cause performance issues"
RecordingDurationWarning == "Recording duration > 10 seconds may cause memory issues"

\* the directive of the validation block: #warning reports and goes on,
\* #error would stop the translation unit
DiagnosticDirective_error == "error"
DiagnosticDirective == "warning"

\* #if SAMPLE_RATE != 16000 && SAMPLE_RATE != 44100
SampleRateCondition_or(sr) == sr # 16000 \/ sr # 44100
SampleRateCondition(sr) == sr # 16000 /\ sr # 44100

\* #if CAMERA_FPS > 30
CameraFpsCondition_ge(fps) == fps >= 30
CameraFpsCondition(fps) == fps > 30

\* #if RECORDING_DURATION_MS > 10000
RecordingDurationCondition_ge(ms) == ms >= 10000
RecordingDurationCondition(ms) == ms > 10000

(* ---------------- arithmetic of the target ---------------- *)

\* C integer division truncates toward zero; b # 0
CDiv(a, b) ==
    LET q == (IF a < 0 THEN -a ELSE a) \div (IF b < 0 THEN -b ELSE b)
    IN  IF (a < 0) = (b < 0) THEN q ELSE -q

\* what a division by zero may leave behind: the build may fold it to any
\* value or the core may trap; the value is not defined by the language
DivByZeroValues == {-1, 0, 1}

NotEvaluated == [evaluated |-> FALSE, defined |-> FALSE, val |-> 0]

(* ---------------- initial state ---------------- *)

Empty == [n \in {} |-> 0]

Init ==
    /\ pc = "network"
    /\ globals = Empty
    /\ macros = Empty
    /\ warnings = {}
    /\ calls = <<>>
    /\ serial = <<>>
    /\ interval = NotEvaluated

Defined(name) == name \in DOMAIN macros

(* ---------------- the header, section by section ---------------- *)

DefineNetwork ==
    /\ pc = "network"
    /\ globals' = [WIFI_SSID |-> WIFI_SSID, WIFI_PASSWORD |-> WIFI_PASSWORD,
                   SERVER_HOST |-> SERVER_HOST, WEBSOCKET_PORT |-> WEBSOCKET_PORT,
                   YOLO_PORT |-> YOLO_PORT, DEVICE_ID |-> DEVICE_ID]
    /\ pc' = "pins"
    /\ UNCHANGED <<macros, warnings, calls, serial, interval>>

DefinePins ==
    /\ pc = "pins"
    /\ macros' = [SERVO_PIN |-> SERVO_PIN,
                  PRESSURE_SENSOR_PIN |-> PRESSURE_SENSOR_PIN,
                  PRESSURE_THRESHOLD |-> PRESSURE_THRESHOLD,
                  I2S_MIC_WS |-> I2S_MIC_WS, I2S_MIC_SD |-> I2S_MIC_SD,
                  I2S_MIC_SCK |-> I2S_MIC_SCK,
                  I2S_SPK_WS |-> I2S_SPK_WS, I2S_SPK_SD |-> I2S_SPK_SD,
                  I2S_SPK_SCK |-> I2S_SPK_SCK] @@ macros
    /\ pc' = "audio"
    /\ UNCHANGED <<globals, warnings, calls, serial, interval>>

DefineAudio ==
    /\ pc = "audio"
    /\ \E sr \in SampleRates, ms \in DurationsMs :
         macros' = [SAMPLE_RATE |-> sr, CHANNELS |-> CHANNELS,
                    BITS_PER_SAMPLE |-> BITS_PER_SAMPLE,
                    RECORDING_DURATION_MS |-> ms,
                    AUDIO_BUFFER_SIZE |-> AUDIO_BUFFER_SIZE,
                    AUDIO_CHUNK_SIZE |-> AUDIO_CHUNK_SIZE] @@ macros
    /\ pc' = "camera"
    /\ UNCHANGED <<globals, warnings, calls, serial, interval>>

\* CAMERA_INTERVAL_MS is a function-free macro whose body is only expanded
\* where it is used: defining it evaluates nothing
DefineCamera ==
    /\ pc = "camera"
    /\ \E fps \in FpsValues :
         macros' = [CAMERA_FPS |-> fps,
                    CAMERA_INTERVAL_MS |-> "(1000 / CAMERA_FPS)",
                    CAMERA_JPEG_QUALITY |-> CAMERA_JPEG_QUALITY,
                    CAMERA_FRAME_SIZE |-> CAMERA_FRAME_SIZE] @@ macros
    /\ pc' = "system"
    /\ UNCHANGED <<globals, warnings, calls, serial, interval>>

DefineSystem ==
    /\ pc = "system"
    /\ \E dbg \in BOOLEAN :
         macros' = [ENABLE_CAMERA_STREAMING |-> ENABLE_CAMERA_STREAMING,
                    ENABLE_AUDIO_RECORDING |-> ENABLE_AUDIO_RECORDING,
                    ENABLE_AUDIO_PLAYBACK |-> ENABLE_AUDIO_PLAYBACK,
                    ENABLE_SERVO_ANIMATION |-> ENABLE_SERVO_ANIMATION,
                    DEBUG_SERIAL |-> dbg,
                    SERIAL_BAUD_RATE |-> SERIAL_BAUD_RATE,
                    WIFI_CONNECT_TIMEOUT |-> WIFI_CONNECT_TIMEOUT,
                    WEBSOCKET_CONNECT_TIMEOUT |-> WEBSOCKET_CONNECT_TIMEOUT,
                    STT_PROCESSING_TIMEOUT |-> STT_PROCESSING_TIMEOUT,
                    AI_RESPONSE_TIMEOUT |-> AI_RESPONSE_TIMEOUT,
                    HTTP_REQUEST_TIMEOUT |-> HTTP_REQUEST_TIMEOUT,
                    AUDIO_WS_PATH |-> AUDIO_WS_PATH,
                    TTS_WS_PATH |-> TTS_WS_PATH] @@ macros
    /\ pc' = "tuning"
    /\ UNCHANGED <<globals, warnings, calls, serial, interval>>

DefineTuning ==
    /\ pc = "tuning"
    /\ macros' = [AUDIO_RECORD_TASK_PRIORITY |-> AUDIO_RECORD_TASK_PRIORITY,
                  AUDIO_PLAYBACK_TASK_PRIORITY |-> AUDIO_PLAYBACK_TASK_PRIORITY,
                  CAMERA_STREAM_TASK_PRIORITY |-> CAMERA_STREAM_TASK_PRIORITY,
                  WEBSOCKET_TASK_PRIORITY |-> WEBSOCKET_TASK_PRIORITY,
                  AUDIO_RECORD_TASK_STACK |-> AUDIO_RECORD_TASK_STACK,
                  AUDIO_PLAYBACK_TASK_STACK |-> AUDIO_PLAYBACK_TASK_STACK,
                  CAMERA_STREAM_TASK_STACK |-> CAMERA_STREAM_TASK_STACK,
                  USE_SPIRAM_FOR_AUDIO |-> USE_SPIRAM_FOR_AUDIO] @@ macros
    /\ pc' = "servo"
    /\ UNCHANGED <<globals, warnings, calls, serial, interval>>

DefineServo ==
    /\ pc = "servo"
    /\ macros' = [SERVO_CENTER_POS |-> SERVO_CENTER_POS,
                  SERVO_LEFT_POS |-> SERVO_LEFT_POS,
                  SERVO_RIGHT_POS |-> SERVO_RIGHT_POS,
                  SERVO_ANIMATION_DELAY |-> SERVO_ANIMATION_DELAY,
                  SERVO_ANIMATION_CYCLES |-> SERVO_ANIMATION_CYCLES] @@ macros
    /\ pc' = "advanced"
    /\ UNCHANGED <<globals, warnings, calls, serial, interval>>

DefineAdvanced ==
    /\ pc = "advanced"
    /\ macros' = [AUDIO_STREAM_CHUNK_SIZE |-> AUDIO_STREAM_CHUNK_SIZE,
                  AUDIO_STREAM_DELAY_MS |-> AUDIO_STREAM_DELAY_MS,
                  WEBSOCKET_RECONNECT_INTERVAL |-> WEBSOCKET_RECONNECT_INTERVAL,
                  CAMERA_INIT_RETRIES |-> CAMERA_INIT_RETRIES,
                  CAMERA_CAPTURE_TIMEOUT |-> CAMERA_CAPTURE_TIMEOUT,
                  AUDIO_PLAYBACK_QUEUE_SIZE |-> AUDIO_PLAYBACK_QUEUE_SIZE] @@ macros
    /\ pc' = "optional"
    /\ UNCHANGED <<globals, warnings, calls, serial, interval>>

DefineOptional ==
    /\ pc = "optional"
    /\ \E verbose \in BOOLEAN :
         macros' = [SERVO_ON_DETECTION |-> SERVO_ON_DETECTION,
                    VERBOSE_LOGGING |-> verbose,
                    DEBUG_MEMORY |-> DEBUG_MEMORY] @@ macros
    /\ pc' = "camera_model"
    /\ UNCHANGED <<globals, warnings, calls, serial, interval>>

\* #define CAMERA_MODEL_AI_THINKER, then the pin map under #ifdef
AiThinkerPins ==
    [PWDN_GPIO_NUM |-> PWDN_GPIO_NUM, RESET_GPIO_NUM |-> RESET_GPIO_NUM,
     XCLK_GPIO_NUM |-> XCLK_GPIO_NUM, SIOD_GPIO_NUM |-> SIOD_GPIO_NUM,
     SIOC_GPIO_NUM |-> SIOC_GPIO_NUM,
     Y9_GPIO_NUM |-> Y9_GPIO_NUM, Y8_GPIO_NUM |-> Y8_GPIO_NUM,
     Y7_GPIO_NUM |-> Y7_GPIO_NUM, Y6_GPIO_NUM |-> Y6_GPIO_NUM,
     Y5_GPIO_NUM |-> Y5_GPIO_NUM, Y4_GPIO_NUM |-> Y4_GPIO_NUM,
     Y3_GPIO_NUM |-> Y3_GPIO_NUM, Y2_GPIO_NUM |-> Y2_GPIO_NUM,
     VSYNC_GPIO_NUM |-> VSYNC_GPIO_NUM, HREF_GPIO_NUM |-> HREF_GPIO_NUM,
     PCLK_GPIO_NUM |-> PCLK_GPIO_NUM]

DefineCameraModel ==
    /\ pc = "camera_model"
    /\ LET m == [CAMERA_MODEL_AI_THINKER |-> ""] @@ macros
       IN  macros' = IF "CAMERA_MODEL_AI_THINKER" \in DOMAIN m
                     THEN AiThinkerPins @@ m
                     ELSE m
    /\ pc' = "check_sample_rate"
    /\ UNCHANGED <<globals, warnings, calls, serial, interval>>

(* ---------------- the validation block ---------------- *)

\* a diagnostic whose condition holds: #warning records the message and the
\* preprocessor goes on to the next directive, #error ends the translation
Diagnose(msg, next) ==
    IF DiagnosticDirective = "error"
    THEN /\ pc' = "error"
         /\ warnings' = warnings
    ELSE /\ pc' = next
         /\ warnings' = warnings \cup {msg}

CheckSampleRate ==
    /\ pc = "check_sample_rate"
    /\ IF SampleRateCondition(macros.SAMPLE_RATE)
       THEN Diagnose(SampleRateWarning, "check_camera_fps")
       ELSE pc' = "check_camera_fps" /\ warnings' = warnings
    /\ UNCHANGED <<globals, macros, calls, serial, interval>>

CheckCameraFps ==
    /\ pc = "check_camera_fps"
    /\ IF CameraFpsCondition(macros.CAMERA_FPS)
       THEN Diagnose(CameraFpsWarning, "check_recording_duration")
       ELSE pc' = "check_recording_duration" /\ warnings' = warnings
    /\ UNCHANGED <<globals, macros, calls, serial, interval>>

CheckRecordingDuration ==
    /\ pc = "check_recording_duration"
    /\ IF RecordingDurationCondition(macros.RECORDING_DURATION_MS)
       THEN Diagnose(RecordingDurationWarning, "helpers")
       ELSE pc' = "helpers" /\ warnings' = warnings
    /\ UNCHANGED <<globals, macros, calls, serial, interval>>

(* ---------------- helper macros ---------------- *)

DefineHelpers ==
    /\ pc = "helpers"
    /\ macros' = [LOG_INFO |-> "if(DEBUG_SERIAL) { Serial.println(msg); }",
                  LOG_DEBUG |-> "if(VERBOSE_LOGGING) { Serial.println(msg); }",
                  LOG_ERROR |-> "Serial.println(ERROR + String(msg))",
                  CONFIG_H |-> ""] @@ macros
    /\ pc' = "compiled"
    /\ UNCHANGED <<globals, warnings, calls, serial, interval>>

(* ---------------- the firmware using the header ---------------- *)

\* the literal LOG_ERROR puts before the message; the cross-mark glyph that
\* opens it in the source is written X here
ErrorPrefix == "X ERROR: "

Call(name, msg) == [macro |-> name, msg |-> msg]

CanLog == pc = "compiled" /\ Len(calls) < MaxCalls

\* if(DEBUG_SERIAL) { Serial.println(msg); }
LOG_INFO(msg) ==
    /\ CanLog
    /\ calls' = Append(calls, Call("LOG_INFO", msg))
    /\ serial' = IF macros.DEBUG_SERIAL THEN Append(serial, msg) ELSE serial
    /\ UNCHANGED <<pc, globals, macros, warnings, interval>>

LOG_DEBUG_debug_serial(msg) ==
    /\ CanLog
    /\ calls' = Append(calls, Call("LOG_DEBUG", msg))
    /\ serial' = IF macros.DEBUG_SERIAL THEN Append(serial, msg) ELSE serial
    /\ UNCHANGED <<pc, globals, macros, warnings, interval>>

\* if(VERBOSE_LOGGING) { Serial.println(msg); }
LOG_DEBUG(msg) ==
    /\ CanLog
    /\ calls' = Append(calls, Call("LOG_DEBUG", msg))
    /\ serial' = IF macros.VERBOSE_LOGGING THEN Append(serial, msg) ELSE serial
    /\ UNCHANGED <<pc, globals, macros, warnings, interval>>

\* Serial.println("X ERROR: " + String(msg)), under no condition
LOG_ERROR(msg) ==
    /\ CanLog
    /\ calls' = Append(calls, Call("LOG_ERROR", msg))
    /\ serial' = Append(serial, ErrorPrefix \o msg)
    /\ UNCHANGED <<pc, globals, macros, warnings, interval>>

\* an expansion of CAMERA_INTERVAL_MS, (1000 / CAMERA_FPS) in int arithmetic
CAMERA_INTERVAL_MS ==
    /\ pc = "compiled"
    /\ ~interval.evaluated
    /\ IF macros.CAMERA_FPS = 0
       THEN \E v \in DivByZeroValues :
              interval' = [evaluated |-> TRUE, defined |-> FALSE, val |-> v]
       ELSE interval' = [evaluated |-> TRUE, defined |-> TRUE,
                         val |-> CDiv(1000, macros.CAMERA_FPS)]
    /\ UNCHANGED <<pc, globals, macros, warnings, calls, serial>>

(* ---------------- specification ---------------- *)

Next ==
    \/ DefineNetwork
    \/ DefinePins
    \/ DefineAudio
    \/ DefineCamera
    \/ DefineSystem
    \/ DefineTuning
    \/ DefineServo
    \/ DefineAdvanced
    \/ DefineOptional
    \/ DefineCameraModel
    \/ CheckSampleRate
    \/ CheckCameraFps
    \/ CheckRecordingDuration
    \/ DefineHelpers
    \/ \E msg \in Msgs : LOG_INFO(msg)
    \/ \E msg \in Msgs : LOG_DEBUG(msg)
    \/ \E msg \in Msgs : LOG_ERROR(msg)
    \/ CAMERA_INTERVAL_MS

Spec == Init /\ [][Next]_vars

TypeOK ==
    /\ pc \in {"network", "pins", "audio", "camera", "system", "tuning",
               "servo", "advanced", "optional", "camera_model",
               "check_sample_rate", "check_camera_fps",
               "check_recording_duration", "helpers", "compiled", "error"}
    /\ warnings \subseteq {SampleRateWarning, CameraFpsWarning, RecordingDurationWarning}
    /\ Len(calls) <= MaxCalls
    /\ Len(serial) <= Len(calls)
    /\ interval.evaluated \in BOOLEAN

(* ---------------- properties ---------------- *)

Compiled == pc = "compiled"

PinMacros ==
    {"SERVO_PIN", "PRESSURE_SENSOR_PIN",
     "I2S_MIC_WS", "I2S_MIC_SD", "I2S_MIC_SCK",
     "I2S_SPK_WS", "I2S_SPK_SD", "I2S_SPK_SCK",
     "PWDN_GPIO_NUM", "RESET_GPIO_NUM", "XCLK_GPIO_NUM", "SIOD_GPIO_NUM",
     "SIOC_GPIO_NUM", "Y9_GPIO_NUM", "Y8_GPIO_NUM", "Y7_GPIO_NUM",
     "Y6_GPIO_NUM", "Y5_GPIO_NUM", "Y4_GPIO_NUM", "Y3_GPIO_NUM",
     "Y2_GPIO_NUM", "VSYNC_GPIO_NUM", "HREF_GPIO_NUM", "PCLK_GPIO_NUM"}

AllFeaturesEnabled ==
    /\ macros.ENABLE_CAMERA_STREAMING
    /\ macros.ENABLE_AUDIO_RECORDING
    /\ macros.ENABLE_AUDIO_PLAYBACK
    /\ macros.ENABLE_SERVO_ANIMATION

\* C1: with camera streaming, audio recording, audio playback and servo
\* animation all enabled, no GPIO number is assigned to two different signals
\* among the servo, pressure sensor, microphone, speaker and camera pins
\* (-1 means not connected and is ignored).
C1_PinsMutuallyDistinct ==
    (Compiled /\ AllFeaturesEnabled) =>
        \A a \in PinMacros, b \in PinMacros :
            (a # b /\ macros[a] # -1 /\ macros[b] # -1) => macros[a] # macros[b]

TimeoutMacros ==
    {"WIFI_CONNECT_TIMEOUT", "WEBSOCKET_CONNECT_TIMEOUT",
     "STT_PROCESSING_TIMEOUT", "AI_RESPONSE_TIMEOUT", "HTTP_REQUEST_TIMEOUT",
     "CAMERA_CAPTURE_TIMEOUT"}

BufferSizeMacros ==
    {"AUDIO_BUFFER_SIZE", "AUDIO_CHUNK_SIZE", "AUDIO_STREAM_CHUNK_SIZE",
     "AUDIO_PLAYBACK_QUEUE_SIZE", "AUDIO_RECORD_TASK_STACK",
     "AUDIO_PLAYBACK_TASK_STACK", "CAMERA_STREAM_TASK_STACK"}

\* C2: every timeout constant and every buffer-size constant (the task stack
\* sizes included) of the compiled header is strictly positive.
C2_TimeoutsAndSizesPositive ==
    Compiled => \A n \in TimeoutMacros \cup BufferSizeMacros : macros[n] > 0

C2_Witness ==
    /\ Compiled
    /\ (TimeoutMacros \cup BufferSizeMacros) \subseteq DOMAIN macros
    /\ macros.CAMERA_CAPTURE_TIMEOUT = 5000
    /\ macros.AUDIO_PLAYBACK_QUEUE_SIZE = 20

AfterSampleRateCheck ==
    pc \in {"check_camera_fps", "check_recording_duration", "helpers", "compiled"}

AfterCameraFpsCheck == pc \in {"check_recording_duration", "helpers", "compiled"}

AfterRecordingDurationCheck == pc \in {"helpers", "compiled"}

\* C3: the sample-rate warning is emitted if and only if SAMPLE_RATE is
\* neither 16000 nor 44100; 22050 triggers it, 16000 and 44100 do not.
C3_SampleRateWarningIff ==
    AfterSampleRateCheck =>
        /\ (SampleRateWarning \in warnings) <=> (macros.SAMPLE_RATE \notin {16000, 44100})
        /\ macros.SAMPLE_RATE = 22050 => SampleRateWarning \in warnings
        /\ macros.SAMPLE_RATE = 16000 => SampleRateWarning \notin warnings
        /\ macros.SAMPLE_RATE = 44100 => SampleRateWarning \notin warnings

C3_Witness ==
    /\ pc = "check_camera_fps"
    /\ macros.SAMPLE_RATE = 22050
    /\ SampleRateWarning \in warnings

\* C4: the frame-rate warning is emitted if and only if CAMERA_FPS is greater
\* than 30; 45 triggers it and 30 does not.
C4_CameraFpsWarningIff ==
    AfterCameraFpsCheck =>
        /\ (CameraFpsWarning \in warnings) <=> (macros.CAMERA_FPS > 30)
        /\ macros.CAMERA_FPS = 45 => CameraFpsWarning \in warnings
        /\ macros.CAMERA_FPS = 30 => CameraFpsWarning \notin warnings

C4_Witness ==
    /\ pc = "check_recording_duration"
    /\ macros.CAMERA_FPS = 45
    /\ CameraFpsWarning \in warnings

\* C5: the recording-duration warning is emitted if and only if
\* RECORDING_DURATION_MS is greater than 10000, exactly 10000 does not trigger
\* it, and each of the three warnings depends only on its own constant: the
\* warnings emitted are exactly those whose own condition holds.
C5_RecordingDurationWarningIff ==
    AfterRecordingDurationCheck =>
        /\ (RecordingDurationWarning \in warnings) <=> (macros.RECORDING_DURATION_MS > 10000)
        /\ macros.RECORDING_DURATION_MS = 10000 => RecordingDurationWarning \notin warnings
        /\ warnings =
             (IF macros.SAMPLE_RATE \notin {16000, 44100} THEN {SampleRateWarning} ELSE {})
             \cup (IF macros.CAMERA_FPS > 30 THEN {CameraFpsWarning} ELSE {})
             \cup (IF macros.RECORDING_DURATION_MS > 10000
                   THEN {RecordingDurationWarning} ELSE {})

\* the duration alone is out of range: only its warning is present
C5_Witness ==
    /\ pc = "helpers"
    /\ macros.RECORDING_DURATION_MS = 10001
    /\ macros.SAMPLE_RATE = 16000
    /\ macros.CAMERA_FPS = 30
    /\ warnings = {RecordingDurationWarning}

ValidationSteps ==
    {"check_sample_rate", "check_camera_fps", "check_recording_duration"}

\* one step of the validation block: on to a later directive of the header,
\* constants untouched, warnings only added
ValidationStepAdvisory ==
    pc \in ValidationSteps =>
        /\ pc' \in (ValidationSteps \cup {"helpers"}) \ {pc}
        /\ pc' # "error"
        /\ macros' = macros
        /\ globals' = globals
        /\ warnings \subseteq warnings'
        /\ Cardinality(warnings') <= 3

\* C6: the validation is advisory only: for every combination of values each
\* step of the validation block goes on to the next directive, never to an
\* error, emits at most the three warnings, and leaves every constant with the
\* value it was given.
C6_ValidationAdvisoryOnly == [][ValidationStepAdvisory]_vars

\* all three values out of range, and the header goes on to its helper macros
C6_Witness ==
    /\ pc = "helpers"
    /\ macros.SAMPLE_RATE = 8000
    /\ macros.CAMERA_FPS = 31
    /\ macros.RECORDING_DURATION_MS = 10001
    /\ Cardinality(warnings) = 3

\* the lines a sequence of logging macro expansions prints when LOG_INFO is
\* governed by DEBUG_SERIAL, LOG_DEBUG by VERBOSE_LOGGING and LOG_ERROR by
\* the flag value errorFlag
RECURSIVE Printed(_, _)
Printed(cs, errorFlag) ==
    IF cs = <<>> THEN <<>>
    ELSE LET c == cs[Len(cs)]
             rest == Printed(SubSeq(cs, 1, Len(cs) - 1), errorFlag)
         IN  IF c.macro = "LOG_INFO"
             THEN (IF macros.DEBUG_SERIAL THEN Append(rest, c.msg) ELSE rest)
             ELSE IF c.macro = "LOG_DEBUG"
             THEN (IF macros.VERBOSE_LOGGING THEN Append(rest, c.msg) ELSE rest)
             ELSE (IF errorFlag THEN Append(rest, ErrorPrefix \o c.msg) ELSE rest)

\* C7 as stated: each of LOG_ERROR, LOG_INFO and LOG_DEBUG prints if its
\* enabling flag is true and prints nothing if the flag is false, whichever
\* of the two flags is taken to govern LOG_ERROR.
C7_AllThreeConditional ==
    Compiled =>
        \E errorFlag \in {macros.DEBUG_SERIAL, macros.VERBOSE_LOGGING} :
            serial = Printed(calls, errorFlag)

\* C7 amended: LOG_INFO prints its message iff DEBUG_SERIAL, LOG_DEBUG prints
\* its message iff VERBOSE_LOGGING, and LOG_ERROR has no enabling flag: it
\* always prints its message, after the error prefix.
C7_InfoDebugConditionalErrorAlways ==
    Compiled => serial = Printed(calls, TRUE)

\* both flags off: LOG_INFO printed nothing, LOG_ERROR printed its line
C7_Witness ==
    /\ Compiled
    /\ ~macros.DEBUG_SERIAL
    /\ ~macros.VERBOSE_LOGGING
    /\ calls = <<Call("LOG_INFO", "boot"), Call("LOG_ERROR", "wifi")>>
    /\ serial = <<"X ERROR: wifi">>

\* C8: the inference port differs from the WebSocket port on the one server
\* host and the audio and TTS paths differ, so the audio, TTS and inference
\* endpoints never coincide.
C8_EndpointsDistinct ==
    Compiled =>
        /\ globals.YOLO_PORT # globals.WEBSOCKET_PORT
        /\ macros.AUDIO_WS_PATH # macros.TTS_WS_PATH
        /\ <<globals.SERVER_HOST, globals.WEBSOCKET_PORT, macros.AUDIO_WS_PATH>>
             # <<globals.SERVER_HOST, globals.WEBSOCKET_PORT, macros.TTS_WS_PATH>>
        /\ \A path \in {macros.AUDIO_WS_PATH, macros.TTS_WS_PATH} :
             <<globals.SERVER_HOST, globals.YOLO_PORT, path>>
               # <<globals.SERVER_HOST, globals.WEBSOCKET_PORT, path>>

C8_Witness ==
    /\ Compiled
    /\ globals.SERVER_HOST = "100.88.240.42"
    /\ globals.WEBSOCKET_PORT = 8000
    /\ globals.YOLO_PORT = 5000
    /\ macros.AUDIO_WS_PATH = "/ws/audio"
    /\ macros.TTS_WS_PATH = "/ws/tts"

\* C9: every CAMERA_FPS value that passes the validation block without the
\* frame-rate warning yields a well-defined, strictly positive
\* CAMERA_INTERVAL_MS with CAMERA_INTERVAL_MS * CAMERA_FPS <= 1000.
C9_UnwarnedFpsGivesPositiveInterval ==
    (Compiled /\ interval.evaluated /\ CameraFpsWarning \notin warnings) =>
        /\ interval.defined
        /\ interval.val > 0
        /\ interval.val * macros.CAMERA_FPS <= 1000

Shipped ==
    /\ macros.SAMPLE_RATE = SAMPLE_RATE
    /\ macros.CAMERA_FPS = CAMERA_FPS
    /\ macros.RECORDING_DURATION_MS = RECORDING_DURATION_MS

\* C10: the configuration as shipped passes the validation block with none of
\* the three warnings, its JPEG quality lies in 0..63 and its servo positions
\* satisfy 0 <= left < center < right <= 180.
C10_ShippedConfigurationInRange ==
    (Compiled /\ Shipped) =>
        /\ warnings = {}
        /\ macros.CAMERA_JPEG_QUALITY \in 0..63
        /\ 0 <= macros.SERVO_LEFT_POS
        /\ macros.SERVO_LEFT_POS < macros.SERVO_CENTER_POS
        /\ macros.SERVO_CENTER_POS < macros.SERVO_RIGHT_POS
        /\ macros.SERVO_RIGHT_POS <= 180

C10_Witness ==
    /\ Compiled
    /\ macros.SAMPLE_RATE = 16000
    /\ macros.CAMERA_FPS = 10
    /\ macros.RECORDING_DURATION_MS = 5000
    /\ warnings = {}

====
